---- MODULE Spec2Model ----
(***************************************************************************)
(* Model of dash/_validate.py: the validators run when a callback is       *)
(* declared (validate_callback, validate_callback_args), when a callback   *)
(* returns a value that cannot be serialized (fail_callback_output) and    *)
(* when the server starts (validate_layout).                               *)
(*                                                                         *)
(* Python strings are sequences of one-character strings, so that the      *)
(* encoding of callback identifiers ("id.prop", "..a.p...b.q..") and its   *)
(* decoding by slicing and splitting are computed, not assumed.            *)
(* Every Python value is a record with a field t, the name of its type.    *)
(***************************************************************************)
EXTENDS Integers, Sequences, FiniteSets, TLC

VARIABLES
    callback_map,   \* app.callback_map: the set of its keys (callback ids)
    registered,     \* history: the output specs the caller registered, in order
    suppress,       \* app.config.suppress_callback_exceptions
    layout,         \* argument of validate_callback / validate_layout
    output,         \* argument of validate_callback / fail_callback_output
    inputs,         \* argument of validate_callback
    state,          \* argument of validate_callback
    outcome,        \* what the last validate_callback call did
    phase,          \* position of the caller around validate_callback
    output_value,   \* argument of fail_callback_output
    layout_value,   \* argument of validate_layout
    raised,         \* what fail_callback_output / validate_layout raised
    pc,             \* concurrent callers: position of each caller
    call            \* concurrent callers: the output spec each caller declares

vars == <<callback_map, registered, suppress, layout, output, inputs, state,
          outcome, phase, output_value, layout_value, raised, pc, call>>

-----------------------------------------------------------------------------
(* Bounds of the model *)

MaxOutputs == 2      \* longest multi-output list of a declaration
MaxInputs == 1       \* longest Input list of a declaration
MaxState == 1        \* longest State list of a declaration
MaxRegistered == 2   \* registrations performed by the caller
MaxReturned == 2     \* longest list returned by a callback
MaxChildren == 2     \* longest children list of a component

-----------------------------------------------------------------------------
(* Python strings and values *)

Dot == "."

S_a == <<"a">>
S_b == <<"b">>
S_c == <<"c">>
S_r == <<"r">>
S_p == <<"p">>
S_q == <<"q">>
S_a_dot_b == <<"a", ".", "b">>
S_data == <<"d", "-">>
S_data_x == <<"d", "-", "x">>
S_data_dot == <<"d", "-", ".">>
S_empty == <<>>

PyStr(s) == [t |-> "str", v |-> s]
PyInt == [t |-> "int", v |-> <<>>]
PyNone == [t |-> "NoneType", v |-> <<>>]
PyList(xs) == [t |-> "list", items |-> xs]

\* isinstance(x, _strings)
IsString(x) == x.t = "str"

\* c in s, for a one-character c
HasChar(s, c) == \E i \in 1..Len(s) : s[i] = c

\* s.startswith(w)
StartsWith(s, w) == Len(w) <= Len(s) /\ SubSeq(s, 1, Len(w)) = w

\* the least index at which sep occurs in s, 0 when it does not
Find(s, sep) ==
    LET hits == {i \in 1..(Len(s) - Len(sep) + 1) : SubSeq(s, i, i + Len(sep) - 1) = sep}
    IN IF hits = {} THEN 0 ELSE CHOOSE i \in hits : \A j \in hits : i <= j

\* s.split(sep): the list of the pieces of s between the occurrences of sep,
\* found from the left
RECURSIVE Split(_, _)
Split(s, sep) ==
    LET i == Find(s, sep)
    IN IF i = 0 THEN <<s>>
       ELSE <<SubSeq(s, 1, i - 1)>> \o Split(SubSeq(s, i + Len(sep), Len(s)), sep)

\* sep.join(xs)
RECURSIVE Join(_, _)
Join(xs, sep) ==
    IF xs = <<>> THEN <<>>
    ELSE IF Len(xs) = 1 THEN xs[1]
    ELSE xs[1] \o sep \o Join(Tail(xs), sep)

\* x[2:-2]
Slice2(x) == SubSeq(x, 3, Len(x) - 2)

Range(f) == {f[i] : i \in DOMAIN f}

\* the sequences over S of length at most n
SeqUpTo(S, n) == UNION {[1..k -> S] : k \in 0..n}

-----------------------------------------------------------------------------
(* dash.dependencies: Output, Input, State *)

Dependency(cls, id, prop) ==
    [t |-> cls, component_id |-> id, component_property |-> prop, component_event |-> FALSE]

\* a binding built by the legacy event API: it carries component_event
WithEvent(d) == [d EXCEPT !.component_event = TRUE]

\* DashDependency.__str__: "{}.{}".format(component_id, component_property)
DepStr(d) == d.component_id.v \o <<Dot>> \o d.component_property.v

\* DashDependency.__eq__: both are dependencies and their strings are equal
DepEq(x, y) == DepStr(x) = DepStr(y)

\* _utils.create_callback_id
create_callback_id(out) ==
    IF out.t = "list"
    THEN <<Dot, Dot>> \o Join([i \in 1..Len(out.items) |-> DepStr(out.items[i])], <<Dot, Dot, Dot>>)
         \o <<Dot, Dot>>
    ELSE DepStr(out)

-----------------------------------------------------------------------------
(* dash.development.base_component.Component *)

Component(id, props, wild, children) ==
    [t |-> "Component", id |-> id, available_properties |-> props,
     available_wildcard_properties |-> wild, children |-> children]

IsComponent(x) == x.t = "Component"

\* Component._traverse: the items below c in depth-first order, c itself excluded;
\* a child that is neither a component nor a list is not yielded
RECURSIVE Traverse(_)
RECURSIVE TraverseList(_)
Traverse(c) ==
    IF c.children.t = "Component" THEN <<c.children>> \o Traverse(c.children)
    ELSE IF c.children.t = "list" THEN TraverseList(c.children.items)
    ELSE <<>>

TraverseList(xs) ==
    IF xs = <<>> THEN <<>>
    ELSE <<xs[1]>> \o (IF IsComponent(xs[1]) THEN Traverse(xs[1]) ELSE <<>>)
         \o TraverseList(Tail(xs))

\* Component.__iter__ / __contains__: the ids of the components below c
LayoutIds(c) ==
    {x.id : x \in {y \in Range(Traverse(c)) : IsComponent(y) /\ y.id # PyNone}}

\* Component.__getitem__: the first component below c with this id
GetItem(c, id) ==
    LET tr == Traverse(c)
        hits == {i \in 1..Len(tr) : IsComponent(tr[i]) /\ tr[i].id = id}
    IN tr[CHOOSE i \in hits : \A j \in hits : i <= j]

-----------------------------------------------------------------------------
(* validate_callback_args *)

NoError == [exc |-> "None", cls |-> "", idx |-> 0]
Error(exc, cls, idx) == [exc |-> exc, cls |-> cls, idx |-> idx]

\* line 166: arg_id not in layout and arg_id != top_id
IdUnknown(arg_id, lay) == arg_id \notin LayoutIds(lay) /\ arg_id # lay.id

\* lines 186-193: the property is neither declared nor covered by a wildcard
PropUnknown(arg_prop, component) ==
    /\ arg_prop.v # <<>>
    /\ arg_prop.v \notin component.available_properties
    /\ ~ \E w \in component.available_wildcard_properties : StartsWith(arg_prop.v, w)

\* lines 162-212: the checks made only when validate_ids holds
IdChecks(arg, lay) ==
    IF IdUnknown(arg.component_id, lay) THEN "NonExistentIdException"
    ELSE LET component == IF lay.id = arg.component_id THEN lay
                          ELSE GetItem(lay, arg.component_id)
         IN IF PropUnknown(arg.component_property, component)
            THEN "NonExistentPropException"
            ELSE IF arg.component_event THEN "NonExistentEventException"
            ELSE "None"

\* CheckArg with the "." check made only together with the id checks
CheckArg_DotWithIdChecks(arg, cls, lay, validate_ids) ==
    IF arg.t # cls THEN "IncorrectTypeException"
    ELSE IF ~ IsString(arg.component_id) THEN "IncorrectTypeException"
    ELSE IF ~ IsString(arg.component_property) THEN "IncorrectTypeException"
    ELSE IF validate_ids /\ HasChar(arg.component_id.v, Dot) THEN "InvalidComponentIdError"
    ELSE IF validate_ids THEN IdChecks(arg, lay)
    ELSE "None"

\* lines 124-212: the body of the loop, for one element of the list
CheckArg(arg, cls, lay, validate_ids) ==
    IF arg.t # cls THEN "IncorrectTypeException"
    ELSE IF ~ IsString(arg.component_id) THEN "IncorrectTypeException"
    ELSE IF ~ IsString(arg.component_property) THEN "IncorrectTypeException"
    ELSE IF HasChar(arg.component_id.v, Dot) THEN "InvalidComponentIdError"
    ELSE IF validate_ids THEN IdChecks(arg, lay)
    ELSE "None"

\* lines 123-212: the loop over the list, from element i on
RECURSIVE CheckArgsFrom(_, _, _, _, _)
CheckArgsFrom(xs, i, cls, lay, validate_ids) ==
    IF i > Len(xs) THEN NoError
    ELSE LET e == CheckArg(xs[i], cls, lay, validate_ids)
         IN IF e # "None" THEN Error(e, cls, i)
            ELSE CheckArgsFrom(xs, i + 1, cls, lay, validate_ids)

validate_callback_args(args, cls, lay, validate_ids) ==
    IF args.t # "list" THEN Error("IncorrectTypeException", cls, 0)
    ELSE CheckArgsFrom(args.items, 1, cls, lay, validate_ids)

-----------------------------------------------------------------------------
(* validate_callback *)

\* CheckLists with the Input list checked before the Output list
CheckLists_InputsFirst(outputs, ins, st, lay, validate_ids) ==
    LET eo == validate_callback_args(outputs, "Output", lay, validate_ids)
        ei == validate_callback_args(ins, "Input", lay, validate_ids)
        es == validate_callback_args(st, "State", lay, validate_ids)
    IN IF ei # NoError THEN ei
       ELSE IF eo # NoError THEN eo
       ELSE es

\* line 33: the three argument lists, checked one after the other
CheckLists(outputs, ins, st, lay, validate_ids) ==
    LET eo == validate_callback_args(outputs, "Output", lay, validate_ids)
        ei == validate_callback_args(ins, "Input", lay, validate_ids)
        es == validate_callback_args(st, "State", lay, validate_ids)
    IN IF eo # NoError THEN eo
       ELSE IF ei # NoError THEN ei
       ELSE es

\* line 36: state and not inputs
MissingInputs(st, ins) == st.items # <<>> /\ ins.items = <<>>

\* SameAsOutput comparing only with a single output
SameAsOutput_SingleOnly(out, i) ==
    IF out.t = "list" THEN FALSE ELSE DepEq(out, i)

\* lines 51-58: bad is set for the input i
SameAsOutput(out, i) ==
    IF out.t = "list"
    THEN \E k \in 1..Len(out.items) : DepEq(out.items[k], i)
    ELSE DepEq(out, i)

\* lines 50-62: the first input that is also an output, 0 when there is none
SameInputOutput(out, ins) ==
    LET bad == {k \in 1..Len(ins.items) : SameAsOutput(out, ins.items[k])}
    IN IF bad = {} THEN 0 ELSE CHOOSE k \in bad : \A j \in bad : k <= j

\* line 65: len(set(output)) != len(output); a set of dependencies holds one
\* dependency per string, since they hash and compare by their string
DuplicateOutputs(out) ==
    Cardinality({DepStr(out.items[k]) : k \in 1..Len(out.items)}) # Len(out.items)

\* lines 75-82: the registered ids, the composite ones split into their members
Callbacks(cmap) ==
    UNION {IF StartsWith(x, <<Dot, Dot>>)
           THEN Range(Split(Slice2(x), <<Dot, Dot, Dot>>))
           ELSE {x} : x \in cmap}

\* lines 84-98: the output, or one output of a multi-output, is already assigned
AlreadyAssigned(out, cmap) ==
    IF out.t = "list"
    THEN Callbacks(cmap) \cap {DepStr(out.items[k]) : k \in 1..Len(out.items)} # {}
    ELSE create_callback_id(out) \in Callbacks(cmap)

validate_callback(cmap, suppressed, lay, out, ins, st) ==
    LET is_multi == out.t = "list"
        validate_ids == ~ suppressed
        outputs == IF is_multi THEN out ELSE PyList(<<out>>)
        e == CheckLists(outputs, ins, st, lay, validate_ids)
    IN IF lay = PyNone /\ validate_ids THEN Error("LayoutIsNotDefined", "", 0)
       ELSE IF e # NoError THEN e
       ELSE IF MissingInputs(st, ins) THEN Error("MissingInputsException", "", 0)
       ELSE IF SameInputOutput(out, ins) # 0
            THEN Error("SameInputOutputException", "Input", SameInputOutput(out, ins))
       ELSE IF is_multi /\ DuplicateOutputs(out) THEN Error("DuplicateCallbackOutput", "Output", 0)
       ELSE IF AlreadyAssigned(out, cmap) THEN Error("DuplicateCallbackOutput", "", 0)
       ELSE NoError

-----------------------------------------------------------------------------
(* The layouts and the bindings the declarations are drawn from *)

CompA == Component(PyStr(S_a), {S_p}, {S_data}, PyNone)
CompB == Component(PyStr(S_b), {S_p, S_q}, {}, PyNone)
LayoutA == Component(PyStr(S_r), {S_p}, {}, PyList(<<CompA, CompB>>))

OutputPool ==
    { Dependency("Output", PyStr(S_a), PyStr(S_p)),
      Dependency("Output", PyStr(S_b), PyStr(S_q)),
      Dependency("Output", PyStr(S_a), PyStr(S_q)),
      Dependency("Output", PyStr(S_a), PyStr(S_empty)),
      Dependency("Output", PyStr(S_a), PyStr(S_data_x)),
      Dependency("Output", PyStr(S_a_dot_b), PyInt),
      WithEvent(Dependency("Output", PyStr(S_a), PyStr(S_p))),
      Dependency("Input", PyStr(S_a), PyStr(S_p)) }

InputPool ==
    { Dependency("Input", PyStr(S_a), PyStr(S_p)),
      Dependency("Input", PyStr(S_b), PyStr(S_p)),
      Dependency("Input", PyStr(S_a_dot_b), PyStr(S_p)) }

StatePool ==
    { Dependency("State", PyStr(S_a), PyStr(S_p)),
      Dependency("State", PyStr(S_c), PyStr(S_p)) }

\* an output spec: one Output, or a list of them
OutputSpecs(pool) == pool \cup {PyList(xs) : xs \in SeqUpTo(pool, MaxOutputs)}

\* an argument list, or something that is not a list
ArgLists(pool, n) == {PyInt} \cup {PyList(xs) : xs \in SeqUpTo(pool, n)}

\* the outputs registered by the caller under app.callback_map
RegisteredPool ==
    { Dependency("Output", PyStr(S_a), PyStr(S_p)),
      Dependency("Output", PyStr(S_b), PyStr(S_q)),
      Dependency("Output", PyStr(S_a), PyStr(S_data_dot)) }

-----------------------------------------------------------------------------
(* Values of the variables a specification does not use *)

NoReturn == [output_value |-> PyNone, layout_value |-> PyNone, raised |-> NoError]
Callers == {1, 2}
NoCallers == [c \in Callers |-> "off"]
NoCalls == [c \in Callers |-> PyNone]

ReturnIdle ==
    /\ output_value = NoReturn.output_value
    /\ layout_value = NoReturn.layout_value
    /\ raised = NoReturn.raised

CallersIdle == pc = NoCallers /\ call = NoCalls

-----------------------------------------------------------------------------
(* Declaring callbacks: validate_callback, then registration by the caller *)

\* the caller (Dash.callback) calls validate_callback on the declaration
ValidateCallback ==
    /\ phase \in {"declared", "validated"}
    /\ outcome' = validate_callback(callback_map, suppress, layout, output, inputs, state)
    /\ phase' = "validated"
    /\ UNCHANGED <<callback_map, registered, suppress, layout, output, inputs, state,
                   output_value, layout_value, raised, pc, call>>

\* one call of validate_callback on each declaration of the pools
InitArgs ==
    /\ callback_map = {}
    /\ registered = <<>>
    /\ suppress \in BOOLEAN
    /\ layout \in {PyNone, LayoutA}
    /\ output \in OutputSpecs(OutputPool)
    /\ inputs \in ArgLists(InputPool, MaxInputs)
    /\ state \in ArgLists(StatePool, MaxState)
    /\ outcome = NoError
    /\ phase = "declared"
    /\ ReturnIdle
    /\ CallersIdle

NextArgs == ValidateCallback

SpecArgs == InitArgs /\ [][NextArgs]_vars

-----------------------------------------------------------------------------
(* The positions of a declaration, in the order the documentation gives:     *)
(* the Output list, then the Input list, then the State list, each in        *)
(* declared order.  Index 0 of a list stands for the argument itself, when   *)
(* it is not a list.                                                         *)

OutputList == IF output.t = "list" THEN output ELSE PyList(<<output>>)

ListOf(cls) == IF cls = "Output" THEN OutputList ELSE IF cls = "Input" THEN inputs ELSE state

PositionsOf(cls) ==
    IF ListOf(cls).t = "list" THEN {<<cls, k>> : k \in 1..Len(ListOf(cls).items)}
    ELSE {<<cls, 0>>}

Positions == PositionsOf("Output") \cup PositionsOf("Input") \cup PositionsOf("State")

ArgAt(pos) == ListOf(pos[1]).items[pos[2]]

ListRank(cls) == IF cls = "Output" THEN 1 ELSE IF cls = "Input" THEN 2 ELSE 3

Before(p, q) ==
    \/ ListRank(p[1]) < ListRank(q[1])
    \/ p[1] = q[1] /\ p[2] < q[2]

\* what is wrong at a position, taken on its own
ViolationAt(pos) ==
    IF pos[2] = 0 THEN "IncorrectTypeException"
    ELSE CheckArg(ArgAt(pos), pos[1], layout, ~ suppress)

Violations == {pos \in Positions : ViolationAt(pos) # "None"}

NoneBefore(pos) == \A q \in Violations : ~ Before(q, pos)

LayoutMissing == layout = PyNone /\ ~ suppress

DeclarationErrors ==
    {"MissingInputsException", "SameInputOutputException", "DuplicateCallbackOutput"}

\* the bindings of a well-typed position
IsBinding(pos) ==
    /\ pos[2] # 0
    /\ ArgAt(pos).t = pos[1]
    /\ IsString(ArgAt(pos).component_id)
    /\ IsString(ArgAt(pos).component_property)

SameBinding(x, y) ==
    x.component_id = y.component_id /\ x.component_property = y.component_property

-----------------------------------------------------------------------------
(* C2: every declaration validate_callback accepts has an Input when it has *)
(* a State, has no Input equal (same id and property) to one of its         *)
(* Outputs, and, when multi-output, has pairwise distinct Outputs.          *)
C2_AcceptedDeclaration ==
    (phase = "validated" /\ outcome = NoError) =>
        /\ state.items # <<>> => inputs.items # <<>>
        /\ \A i \in 1..Len(inputs.items) : \A o \in 1..Len(OutputList.items) :
               ~ SameBinding(inputs.items[i], OutputList.items[o])
        /\ output.t = "list" =>
               \A j, k \in 1..Len(output.items) :
                   j # k => ~ SameBinding(output.items[j], output.items[k])

\* an accepted multi-output declaration with two Outputs, an Input and a State
C2_Witness ==
    /\ phase = "validated" /\ outcome = NoError
    /\ output.t = "list" /\ Len(output.items) = 2
    /\ inputs.items # <<>> /\ state.items # <<>>

(* C4: validate_callback reports the first violation in the order Output    *)
(* list, Input list, State list, each list in declared order; the errors    *)
(* of the declaration as a whole are reported only when no list holds a     *)
(* violation.                                                               *)
C4_FirstViolationReported ==
    (phase = "validated" /\ ~ LayoutMissing) =>
        /\ Violations # {} =>
               \E pos \in Violations :
                   /\ NoneBefore(pos)
                   /\ outcome = Error(ViolationAt(pos), pos[1], pos[2])
        /\ Violations = {} => outcome.exc \in DeclarationErrors \cup {"None"}

\* violations in two lists: the one of the Output list is reported
C4_Witness ==
    /\ phase = "validated" /\ ~ LayoutMissing
    /\ \E p, q \in Violations : p[1] = "Output" /\ p[2] = 2 /\ q[1] = "Input"
    /\ outcome.cls = "Output" /\ outcome.idx = 2

-----------------------------------------------------------------------------
(* C5 *)

Dotted(pos) ==
    /\ pos[2] # 0
    /\ IsString(ArgAt(pos).component_id)
    /\ HasChar(ArgAt(pos).component_id.v, Dot)

DottedPositions == {pos \in Positions : Dotted(pos)}

(* C5, as stated: every declaration in which a binding's component_id       *)
(* contains "." fails with InvalidComponentIdError, whatever else holds.    *)
C5_Original ==
    (phase = "validated" /\ DottedPositions # {}) =>
        outcome.exc = "InvalidComponentIdError"

(* C5, amended: every declaration in which a binding's component_id         *)
(* contains "." fails; it fails with InvalidComponentIdError for that       *)
(* binding when no earlier check fails: the layout is there or id checks    *)
(* are suppressed, no position before it holds a violation, and the         *)
(* binding is of the expected kind with a string component_property.        *)
C5_DottedIdRejected ==
    (phase = "validated" /\ DottedPositions # {}) =>
        /\ outcome # NoError
        /\ \A pos \in DottedPositions :
               (~ LayoutMissing /\ NoneBefore(pos) /\ IsBinding(pos)) =>
                   outcome = Error("InvalidComponentIdError", pos[1], pos[2])

\* a dotted id in the Input list, id checks suppressed, reported as such
C5_Witness ==
    /\ phase = "validated" /\ suppress
    /\ \E pos \in DottedPositions : pos[1] = "Input" /\ IsBinding(pos) /\ NoneBefore(pos)
    /\ outcome.exc = "InvalidComponentIdError"

-----------------------------------------------------------------------------
(* C6 *)

WithoutEvent(d) == [d EXCEPT !.component_event = FALSE]

\* a binding with the event marker and nothing else wrong
OnlyEvent(pos) ==
    /\ IsBinding(pos)
    /\ ArgAt(pos).component_event
    /\ CheckArg(WithoutEvent(ArgAt(pos)), pos[1], layout, ~ suppress) = "None"

(* C6: a declaration with a binding that carries the event marker, and no   *)
(* earlier violation, fails with NonExistentEventException, whether or not  *)
(* id checks are suppressed.                                                *)
C6_EventRejected ==
    (phase = "validated" /\ ~ LayoutMissing) =>
        \A pos \in Positions :
            (OnlyEvent(pos) /\ \A q \in Positions : Before(q, pos) => ViolationAt(q) = "None") =>
                outcome = Error("NonExistentEventException", pos[1], pos[2])

-----------------------------------------------------------------------------
(* C7 *)

\* the component of the tree a known id names
ComponentOf(id) ==
    IF id = layout.id THEN layout
    ELSE CHOOSE c \in Range(Traverse(layout)) : IsComponent(c) /\ c.id = id

KnownId(id) == id = layout.id \/ \E c \in Range(Traverse(layout)) : IsComponent(c) /\ c.id = id

Undeclared(prop, c) ==
    /\ prop \notin c.available_properties
    /\ \A w \in c.available_wildcard_properties : ~ StartsWith(prop, w)

(* C7: with id checks enabled, a binding whose id is in the tree fails with *)
(* NonExistentPropException exactly when its property, any string, is not   *)
(* declared and starts with no wildcard prefix; with id checks suppressed   *)
(* neither NonExistentIdException nor NonExistentPropException is raised.   *)
C7_UnknownProperty ==
    phase = "validated" =>
        /\ (~ suppress /\ layout # PyNone) =>
               \A pos \in Positions :
                   ( /\ IsBinding(pos)
                     /\ ~ Dotted(pos)
                     /\ KnownId(ArgAt(pos).component_id)
                     /\ \A q \in Positions : Before(q, pos) => ViolationAt(q) = "None" ) =>
                       ( outcome = Error("NonExistentPropException", pos[1], pos[2])
                         <=> Undeclared(ArgAt(pos).component_property.v,
                                        ComponentOf(ArgAt(pos).component_id)) )
        /\ suppress =>
               outcome.exc \notin {"NonExistentIdException", "NonExistentPropException"}

-----------------------------------------------------------------------------
(* Registration: the caller validates a declaration and, when no error is   *)
(* raised, stores it in app.callback_map under its callback id.             *)

InitReg ==
    /\ callback_map = {}
    /\ registered = <<>>
    /\ suppress \in BOOLEAN
    /\ layout = LayoutA
    /\ output = PyList(<<>>)
    /\ inputs = PyList(<<>>)
    /\ state = PyList(<<>>)
    /\ outcome = NoError
    /\ phase = "idle"
    /\ ReturnIdle
    /\ CallersIdle

\* the application declares a callback
Declare ==
    /\ phase = "idle"
    /\ output' \in OutputSpecs(RegisteredPool)
    /\ inputs' \in {PyList(<<>>), PyList(<<Dependency("Input", PyStr(S_b), PyStr(S_p))>>)}
    /\ phase' = "declared"
    /\ UNCHANGED <<callback_map, registered, suppress, layout, state, outcome,
                   output_value, layout_value, raised, pc, call>>

\* validate_callback returned: the caller stores the callback
Register ==
    /\ phase = "validated"
    /\ outcome = NoError
    /\ Len(registered) < MaxRegistered
    /\ callback_map' = callback_map \cup {create_callback_id(output)}
    /\ registered' = Append(registered, output)
    /\ phase' = "idle"
    /\ UNCHANGED <<suppress, layout, output, inputs, state, outcome,
                   output_value, layout_value, raised, pc, call>>

\* validate_callback raised, or the application gives the declaration up
Abandon ==
    /\ phase = "validated"
    /\ phase' = "idle"
    /\ UNCHANGED <<callback_map, registered, suppress, layout, output, inputs, state,
                   outcome, output_value, layout_value, raised, pc, call>>

NextReg == Declare \/ ValidateCallback \/ Register \/ Abandon

SpecReg == InitReg /\ [][NextReg]_vars

\* the Output bindings of an output spec, as (id, property) pairs
BindingsOf(out) ==
    IF out.t = "list"
    THEN {<<out.items[k].component_id, out.items[k].component_property>> :
              k \in 1..Len(out.items)}
    ELSE {<<out.component_id, out.component_property>>}

\* the bindings the registered declarations own
Owned == UNION {BindingsOf(registered[k]) : k \in 1..Len(registered)}

\* nothing but a registered output is wrong with the declaration
OtherwiseValid == validate_callback({}, suppress, layout, output, inputs, state) = NoError

(* C1: no Output binding is owned by two registered declarations, and a     *)
(* candidate one of whose Output bindings is registered, alone or as a      *)
(* member of a composite id, is rejected with DuplicateCallbackOutput.      *)
C1_OutputOwnedOnce ==
    /\ \A j, k \in 1..Len(registered) :
           j # k => BindingsOf(registered[j]) \cap BindingsOf(registered[k]) = {}
    /\ (phase = "validated" /\ OtherwiseValid /\ BindingsOf(output) \cap Owned # {}) =>
           outcome.exc = "DuplicateCallbackOutput"

(* C3: validate_callback leaves app.callback_map as it is; a declaration    *)
(* validated again without a registration in between gets the same answer;  *)
(* a registered declaration validated again fails with                      *)
(* DuplicateCallbackOutput.                                                 *)
C3_Idempotence ==
    [][ValidateCallback =>
          /\ callback_map' = callback_map
          /\ phase = "validated" => outcome' = outcome
          /\ (BindingsOf(output) # {} /\ \E k \in 1..Len(registered) : registered[k] = output)
                 => outcome'.exc = "DuplicateCallbackOutput"]_vars

-----------------------------------------------------------------------------
(* Two callers declare one callback each.  The module takes no lock: a      *)
(* caller reads app.callback_map inside validate_callback and writes it     *)
(* afterwards.  SpecRace lets the two steps of the callers interleave,      *)
(* SpecSerial runs each caller's two steps as one.                          *)

InitCallers ==
    /\ callback_map = {}
    /\ registered = <<>>
    /\ suppress \in BOOLEAN
    /\ layout = LayoutA
    /\ output = PyList(<<>>)
    /\ inputs = PyList(<<>>)
    /\ state = PyList(<<>>)
    /\ outcome = NoError
    /\ phase = "idle"
    /\ ReturnIdle
    /\ pc = [c \in Callers |-> "start"]
    /\ call \in [Callers -> OutputSpecs(RegisteredPool)]

CallerOutcome(c) == validate_callback(callback_map, suppress, layout, call[c], inputs, state)

\* caller c runs validate_callback
CallerValidate(c) ==
    /\ pc[c] = "start"
    /\ outcome' = CallerOutcome(c)
    /\ pc' = [pc EXCEPT ![c] = IF CallerOutcome(c) = NoError THEN "validated" ELSE "rejected"]
    /\ UNCHANGED <<callback_map, registered, suppress, layout, output, inputs, state,
                   phase, output_value, layout_value, raised, call>>

\* caller c stores its callback
CallerRegister(c) ==
    /\ pc[c] = "validated"
    /\ callback_map' = callback_map \cup {create_callback_id(call[c])}
    /\ registered' = Append(registered, call[c])
    /\ pc' = [pc EXCEPT ![c] = "registered"]
    /\ UNCHANGED <<suppress, layout, output, inputs, state, outcome,
                   phase, output_value, layout_value, raised, call>>

\* caller c validates and stores its callback with no step of the other in between
CallerValidateAndRegister(c) ==
    /\ pc[c] = "start"
    /\ outcome' = CallerOutcome(c)
    /\ IF CallerOutcome(c) = NoError
       THEN /\ callback_map' = callback_map \cup {create_callback_id(call[c])}
            /\ registered' = Append(registered, call[c])
            /\ pc' = [pc EXCEPT ![c] = "registered"]
       ELSE /\ pc' = [pc EXCEPT ![c] = "rejected"]
            /\ UNCHANGED <<callback_map, registered>>
    /\ UNCHANGED <<suppress, layout, output, inputs, state,
                   phase, output_value, layout_value, raised, call>>

NextRace == \E c \in Callers : CallerValidate(c) \/ CallerRegister(c)

SpecRace == InitCallers /\ [][NextRace]_vars

NextSerial == \E c \in Callers : CallerValidateAndRegister(c)

SpecSerial == InitCallers /\ [][NextSerial]_vars

\* both callers registered declarations that share an Output binding
SharedOutputRegistered ==
    /\ \A c \in Callers : pc[c] = "registered"
    /\ BindingsOf(call[1]) \cap BindingsOf(call[2]) # {}

(* C10, the serialized half: when each caller's validation and              *)
(* registration run with no step of the other caller in between, the two    *)
(* callers never both register declarations that share an Output binding.   *)
(* (The other half, that interleaved callers can, is RaceReached.)          *)
C10_SerialOwnedOnce == ~ SharedOutputRegistered

\* the race of C10: under SpecRace both validations pass before either
\* registration and both declarations end up registered
RaceReached == SharedOutputRegistered /\ Len(registered) = 2

-----------------------------------------------------------------------------
(* validate_layout *)

\* the truth value Python gives a value in a condition
Truthy(x) ==
    IF x.t = "NoneType" THEN FALSE
    ELSE IF x.t \in {"str", "set"} THEN x.v # <<>>
    ELSE IF x.t \in {"list", "tuple"} THEN x.items # <<>>
    ELSE TRUE

\* getattr(x, "id", None)
IdOf(x) == IF IsComponent(x) THEN x.id ELSE PyNone

NoDuplicate == [exc |-> "None", id |-> PyNone]

\* component_ids without the id of the root
InitialIds_NoRoot(value) == {}

\* line 419: component_ids = {layout_id} if layout_id else set()
InitialIds(value) == IF Truthy(IdOf(value)) THEN {IdOf(value)} ELSE {}

\* lines 421-431: the loop over layout_value._traverse(), from item i on
RECURSIVE ScanIds(_, _, _)
ScanIds(tr, i, component_ids) ==
    IF i > Len(tr) THEN NoDuplicate
    ELSE IF Truthy(IdOf(tr[i])) /\ IdOf(tr[i]) \in component_ids
         THEN [exc |-> "DuplicateIdError", id |-> IdOf(tr[i])]
    ELSE ScanIds(tr, i + 1, component_ids \cup {IdOf(tr[i])})

validate_layout(lay, value) ==
    IF lay = PyNone THEN [exc |-> "NoLayoutException", id |-> PyNone]
    ELSE ScanIds(Traverse(value), 1, InitialIds(value))

\* the layouts validate_layout is run on
LayoutIdPool == {PyNone, PyStr(S_empty), PyStr(S_a), PyStr(S_b)}

Node(id, children) == Component(id, {}, {}, children)

LeafNodes == {Node(i, PyNone) : i \in LayoutIdPool}

InnerNodes == {Node(i, ch) : i \in LayoutIdPool, ch \in {PyNone} \cup LeafNodes}

\* the items of a children list: components and strings
ChildItems == InnerNodes \cup {PyStr(S_p)}

RealizedLayouts ==
    {Node(i, ch) : i \in LayoutIdPool,
                   ch \in {PyNone} \cup ChildItems
                          \cup {PyList(xs) : xs \in SeqUpTo(ChildItems, MaxChildren)}}

Function == [t |-> "function", v |-> <<>>]

CallbackIdle ==
    /\ callback_map = {}
    /\ registered = <<>>
    /\ suppress = FALSE
    /\ inputs = PyList(<<>>)
    /\ state = PyList(<<>>)
    /\ outcome = NoError

\* app.layout is absent, a component, or a function returning layout_value
InitLayout ==
    /\ CallbackIdle
    /\ CallersIdle
    /\ output = PyList(<<>>)
    /\ output_value = PyNone
    /\ layout_value \in RealizedLayouts
    /\ layout \in {PyNone, layout_value, Function}
    /\ raised = NoDuplicate
    /\ phase = "called"

\* run_server calls validate_layout
ValidateLayout ==
    /\ phase = "called"
    /\ raised' = validate_layout(layout, layout_value)
    /\ phase' = "done"
    /\ UNCHANGED <<callback_map, registered, suppress, layout, output, inputs, state,
                   outcome, output_value, layout_value, pc, call>>

NextLayout == ValidateLayout

SpecLayout == InitLayout /\ [][NextLayout]_vars

\* the nodes of the realized layout, the root first, then in traversal order
Nodes == <<layout_value>> \o Traverse(layout_value)

HasId(n) == IsComponent(n) /\ n.id \notin {PyNone, PyStr(S_empty)}

\* node k has the id of a node met before it
Repeats(k) == HasId(Nodes[k]) /\ \E j \in 1..(k - 1) : HasId(Nodes[j]) /\ Nodes[j].id = Nodes[k].id

Repeated == {k \in 1..Len(Nodes) : Repeats(k)}

(* C9: validate_layout on a layout that is not absent fails with            *)
(* DuplicateIdError exactly when two nodes of the realized layout, the root *)
(* included, have the same non-empty id, and it reports the id of the first *)
(* node in traversal order that repeats an id; empty and absent ids never   *)
(* make it fail.                                                            *)
C9_DuplicateId ==
    (phase = "done" /\ layout # PyNone) =>
        /\ raised.exc = "DuplicateIdError" <=> Repeated # {}
        /\ Repeated # {} =>
               \E k \in Repeated : (\A j \in Repeated : k <= j) /\ raised.id = Nodes[k].id
        /\ Repeated = {} => raised = NoDuplicate

\* two ids are repeated, one of them the root's, and the first repeat is reported
C9_Witness ==
    /\ phase = "done" /\ layout # PyNone
    /\ Cardinality({Nodes[k].id : k \in Repeated}) = 2
    /\ Repeats(Len(Nodes)) /\ Nodes[Len(Nodes)].id = layout_value.id
    /\ raised.exc = "DuplicateIdError" /\ raised.id # layout_value.id

-----------------------------------------------------------------------------
(* fail_callback_output *)

\* an instance of a class of the application: true in a condition
Obj == [t |-> "object", v |-> <<"o">>]
\* set(): false in a condition
EmptySet == [t |-> "set", v |-> <<>>]
\* a dict, whatever it holds
Dict == [t |-> "dict", v |-> <<"k">>]

\* line 239, 285: isinstance(val, valid)
ValueIsValid(val) == val.t \in {"str", "dict", "int", "float", "NoneType", "Component"}

\* isinstance(x, (tuple, collections.MutableSequence))
IsSequence(x) == x.t \in {"list", "tuple"}

\* getattr(x, "children", None)
ChildrenOf(x) == IF IsComponent(x) THEN x.children ELSE PyNone

Segment(index, type) == [index |-> index, type |-> type]

\* Component._traverse_with_paths: the items below c with the path to each
RECURSIVE TraverseWithPaths(_)
RECURSIVE TraverseListWithPaths(_, _)
TraverseWithPaths(c) ==
    IF c.children.t = "Component"
    THEN LET here == <<Segment("[*]", c.children.t)>>
             below == TraverseWithPaths(c.children)
         IN <<[path |-> here, item |-> c.children]>>
            \o [k \in 1..Len(below) |-> [path |-> here \o below[k].path, item |-> below[k].item]]
    ELSE IF IsSequence(c.children) THEN TraverseListWithPaths(c.children.items, 1)
    ELSE <<>>

TraverseListWithPaths(xs, i) ==
    IF i > Len(xs) THEN <<>>
    ELSE LET here == <<Segment("[" \o ToString(i - 1) \o "]", xs[i].t)>>
             below == IF IsComponent(xs[i]) THEN TraverseWithPaths(xs[i]) ELSE <<>>
         IN <<[path |-> here, item |-> xs[i]]>>
            \o [k \in 1..Len(below) |-> [path |-> here \o below[k].path, item |-> below[k].item]]
            \o TraverseListWithPaths(xs, i + 1)

\* lines 241-282: _raise_invalid; the location names the index and the path
\* unless toplevel is set
Invalid(bad_val, path, index, toplevel) ==
    [exc |-> "InvalidCallbackReturnValue", generic |-> FALSE, bad_val |-> bad_val,
     toplevel |-> toplevel,
     index |-> IF toplevel THEN "" ELSE index,
     path |-> IF toplevel THEN <<>> ELSE path]

NothingRaised ==
    [exc |-> "None", generic |-> FALSE, bad_val |-> PyNone, toplevel |-> FALSE,
     index |-> "", path |-> <<>>]

\* lines 298-306, 309-317: a child that the traversal does not yield
BadChild(x) ==
    /\ ~ IsSequence(ChildrenOf(x))
    /\ Truthy(ChildrenOf(x))
    /\ ~ ValueIsValid(ChildrenOf(x))

\* lines 291-306: the loop over val._traverse_with_paths(), from item k on
RECURSIVE CheckItems(_, _, _)
CheckItems(tr, k, index) ==
    IF k > Len(tr) THEN NothingRaised
    ELSE IF ~ ValueIsValid(tr[k].item)
         THEN Invalid(tr[k].item, tr[k].path, index, FALSE)
    ELSE IF BadChild(tr[k].item)
         THEN Invalid(ChildrenOf(tr[k].item),
                      tr[k].path \o <<Segment("[*]", ChildrenOf(tr[k].item).t)>>, index, FALSE)
    ELSE CheckItems(tr, k + 1, index)

\* lines 287-327: _validate_value
ValidateValue(val, index) ==
    IF IsComponent(val)
    THEN LET e == CheckItems(TraverseWithPaths(val), 1, index)
         IN IF e # NothingRaised THEN e
            ELSE IF BadChild(val)
                 THEN Invalid(val.children, <<Segment("", val.children.t)>>, index, FALSE)
            ELSE NothingRaised
    ELSE IF ~ ValueIsValid(val) THEN Invalid(val, <<>>, index, TRUE)
    ELSE NothingRaised

\* lines 330-331: the loop over the returned list, from element i on
RECURSIVE ValidateValues(_, _)
ValidateValues(xs, i) ==
    IF i > Len(xs) THEN NothingRaised
    ELSE LET e == ValidateValue(xs[i], "[" \o ToString(i - 1) \o "]")
         IN IF e # NothingRaised THEN e ELSE ValidateValues(xs, i + 1)

\* lines 336-346: the generic error; output.component_property does not exist
\* when output is a list of Outputs
GenericError(out) ==
    IF out.t = "list"
    THEN [NothingRaised EXCEPT !.exc = "AttributeError"]
    ELSE [NothingRaised EXCEPT !.exc = "InvalidCallbackReturnValue", !.generic = TRUE]

fail_callback_output(value, out) ==
    LET e == IF value.t = "list" THEN ValidateValues(value.items, 1)
             ELSE ValidateValue(value, "[*]")
    IN IF e # NothingRaised THEN e ELSE GenericError(out)

\* the values a callback returns
Leaves == {PyStr(S_p), Obj, EmptySet}

LeafComponents == {Node(PyNone, ch) : ch \in {PyNone} \cup Leaves}

TreeItems == Leaves \cup LeafComponents

Trees ==
    {Node(PyStr(S_a), ch) :
         ch \in {PyNone} \cup TreeItems \cup {PyList(xs) : xs \in SeqUpTo(TreeItems, MaxChildren)}}

Values == Leaves \cup {Dict} \cup Trees

ReturnedValues == Values \cup {PyList(xs) : xs \in SeqUpTo(Values, MaxReturned)}

OutputA == Dependency("Output", PyStr(S_a), PyStr(S_p))
OutputB == Dependency("Output", PyStr(S_b), PyStr(S_q))

InitReturn ==
    /\ CallbackIdle
    /\ CallersIdle
    /\ layout = PyNone
    /\ layout_value = PyNone
    /\ output \in {OutputA, PyList(<<OutputA, OutputB>>)}
    /\ output_value \in ReturnedValues
    /\ raised = NothingRaised
    /\ phase = "called"

\* the response could not be serialized: the caller calls fail_callback_output
FailCallbackOutput ==
    /\ phase = "called"
    /\ raised' = fail_callback_output(output_value, output)
    /\ phase' = "done"
    /\ UNCHANGED <<callback_map, registered, suppress, layout, output, inputs, state,
                   outcome, output_value, layout_value, pc, call>>

NextReturn == FailCallbackOutput

SpecReturn == InitReturn /\ [][NextReturn]_vars

-----------------------------------------------------------------------------
(* The values of a returned value, in traversal order: each element of the  *)
(* returned list (or the value itself), followed by what its tree holds,    *)
(* depth first, a child that is a single value included.                    *)

RECURSIVE Below(_)
RECURSIVE BelowList(_)
Below(c) ==
    IF ~ IsComponent(c) \/ c.children = PyNone THEN <<>>
    ELSE IF IsSequence(c.children) THEN BelowList(c.children.items)
    ELSE <<c.children>> \o Below(c.children)

BelowList(xs) ==
    IF xs = <<>> THEN <<>>
    ELSE <<xs[1]>> \o Below(xs[1]) \o BelowList(Tail(xs))

\* the occurrences of element i of the returned list (0: the value itself)
OccurrencesOf(val, i) ==
    <<[elem |-> i, top |-> TRUE, value |-> val]>>
    \o [k \in 1..Len(Below(val)) |-> [elem |-> i, top |-> FALSE, value |-> Below(val)[k]]]

RECURSIVE OccurrencesFrom(_, _)
OccurrencesFrom(xs, i) ==
    IF i > Len(xs) THEN <<>>
    ELSE OccurrencesOf(xs[i], i) \o OccurrencesFrom(xs, i + 1)

Occurrences ==
    IF output_value.t = "list" THEN OccurrencesFrom(output_value.items, 1)
    ELSE OccurrencesOf(output_value, 0)

Disallowed == {k \in 1..Len(Occurrences) : ~ ValueIsValid(Occurrences[k].value)}

FirstDisallowed == Occurrences[CHOOSE k \in Disallowed : \A j \in Disallowed : k <= j]

(* C8: fail_callback_output always raises InvalidCallbackReturnValue; when  *)
(* the returned value holds a disallowed value the error is for the first   *)
(* one in traversal order and gives its location: the index in the list     *)
(* when the returned value is a list, "top level" when it is singular, the  *)
(* path when it is inside a component; the generic error is raised only     *)
(* when there is no disallowed value.                                       *)
C8_FirstDisallowedLocated ==
    phase = "done" =>
        /\ raised.exc = "InvalidCallbackReturnValue"
        /\ Disallowed # {} =>
               /\ ~ raised.generic
               /\ raised.bad_val = FirstDisallowed.value
               /\ output_value.t = "list" =>
                      raised.index = "[" \o ToString(FirstDisallowed.elem - 1) \o "]"
               /\ (output_value.t # "list" /\ FirstDisallowed.top) => raised.toplevel
               /\ ~ FirstDisallowed.top => raised.path # <<>>
        /\ Disallowed = {} => raised.generic

====
